---- MODULE Spec2Model ----
(***************************************************************************)
(* State-machine model of WAConnection (src/src/WAConnection.ts) and of    *)
(* the FocksupClient built on it (src/src/Client.ts).                      *)
(*                                                                         *)
(* JavaScript runs one macrotask (a caller's call, a socket event, a timer *)
(* expiry) to completion together with the promise continuations it makes  *)
(* runnable, so every action below is one macrotask: the synchronous part  *)
(* of a handler followed by the continuations of the promises it settles.  *)
(* A call suspended across macrotasks is kept in the state (opening, reqs, *)
(* futures, loops).  Handlers are operators from state record to state     *)
(* record, composed in the order the code runs them; Commit writes the     *)
(* resulting record to the variables.                                      *)
(***************************************************************************)
EXTENDS Integers, Sequences, FiniteSets, TLC

\* ----------------------------------------------------------------- bounds
NumTags == 2               \* size of the range generateMessageTag draws from
MaxReqs == 2               \* sendRequest calls followed by the model
MaxFutures == 2            \* authentication promises created
MaxReconnectAttempts == 2  \* options.maxReconnectAttempts
MaxLoops == 2              \* handleReconnection invocations alive at once
MaxEvents == 18            \* length of the observed event log
MaxLen == 1                \* characters of a string field of a credentials object
MaxSockets == 3            \* WebSocket objects of a WASocket alive at once
MaxTimers == 2             \* reopen timers of a WASocket pending at once
MaxLoginEvents == 2        \* events in the log when a login envelope is taken

VARIABLES
    ws,                \* WAConnection.ws: "null", or the readyState of the attached socket
    authState,         \* WAConnection.authState
    credentials,       \* WAConnection.credentials: <<>> (undefined) or <<record>>
    authPromise,       \* WAConnection.authPromise: 0 (undefined) or a future
    authResolve,       \* WAConnection.authResolve: 0 or the future it resolves
    authReject,        \* WAConnection.authReject: 0 or the future it rejects
    futures,           \* the promises made by setupAuthenticationPromise
    awaited,           \* the promises waitForAuthentication returned to its callers
    keepAliveInterval, \* WAConnection.keepAliveInterval is set
    msgRetryCache,     \* WAConnection.msgRetryCache: tag -> request whose callbacks are stored (0: none)
    reqs,              \* the promises returned by sendRequest, with their timers
    opening,           \* the connect() call waiting in waitForOpen: <<>> or <<record>>
    hung,              \* some connect() call lost its listeners while waiting
    out,               \* types of the payloads handed to ws.send by the latest step
    srvAuth,           \* what the server did with the auth message on the attached socket
    refused,           \* sockets that failed to open since the caller's last call
    cState,            \* FocksupClient.state
    cCreds,            \* FocksupClient.credentials: <<>> or <<record>>
    events,            \* events FocksupClient emitted since the caller's last call
    loops,             \* the handleReconnection invocations
    quiet,             \* no handleReconnection was running at the caller's last call
    options,           \* FocksupClient.options
    attached,          \* a FocksupClient listens to the connection's events
    storage,           \* a credentials object on its way through storage and back
    sock,              \* a WASocket: its fields, its WebSocket objects and its timers
    authCall,          \* the caller's authenticateWithQR / authenticateWithPairingCode call
    thrown             \* error a call of the caller failed with in the latest step

vars == <<ws, authState, credentials, authPromise, authResolve, authReject,
          futures, awaited, keepAliveInterval, msgRetryCache, reqs, opening, hung,
          out, srvAuth, refused, cState, cCreds, events, loops, quiet,
          options, attached, storage, sock,
          authCall, thrown>>

\* ------------------------------------------------------------ value sets
None == <<>>
Some(x) == <<x>>

AutoTags == {ToString(n) : n \in 0..(NumTags - 1)}
FixedTags == {"request_qr", "request_pairing_code"}
Tags == AutoTags \cup FixedTags

CredFields == {"publicKey", "privateKey", "serverPublicKey", "qrCode",
               "pairingCode", "session"}
NoFields == [f \in CredFields |-> "undef"]

\* credentials a caller restores from storage
StoredCredentials == [NoFields EXCEPT !["publicKey"] = "pubS",
                                      !["privateKey"] = "privS",
                                      !["serverPublicKey"] = "spk",
                                      !["session"] = "s0"]

ReqIds == 1..MaxReqs
FutureIds == 1..MaxFutures
LoopIds == 1..MaxLoops

NoKeys == [public |-> "undef", private |-> "undef"]
\* key pairs generateKeypair can return
KeyPairs == {[public |-> "pub1", private |-> "priv1"]}

\* stale: the request was pending when disconnect() was last called
FreeReq == [status |-> "free", tag |-> "-", timer |-> FALSE, kind |-> "-",
            keys |-> NoKeys, stale |-> FALSE]
\* a settled promise of sendRequest: its timer is cleared, only the outcome stays
Settled(status) == [FreeReq EXCEPT !.status = status]
IdleLoop == [pc |-> "idle", attempts |-> 0]

Direct == [who |-> "direct", l |-> 0]
User == [who |-> "user", l |-> 0]
Loop(l) == [who |-> "loop", l |-> l]

\* ------------------------------------- credentials objects and their JSON
\* characters of a string value: a letter, the quote, the backslash and the
\* line feed (PEM keys hold line feeds)
Chars == {"a", "n", "\"", "\\", "\n"}

RECURSIVE StringsUpTo(_)
StringsUpTo(n) ==
    IF n = 0 THEN {<<>>}
    ELSE LET shorter == StringsUpTo(n - 1)
         IN shorter \cup {Append(w, c) : w \in shorter, c \in Chars}

\* a property of a JavaScript object: absent, present with the value
\* undefined, or present with a string
Absent == [kind |-> "absent", chars |-> <<>>]
Undefined == [kind |-> "undefined", chars |-> <<>>]
Str(w) == [kind |-> "string", chars |-> w]
JsValues == {Absent, Undefined} \cup {Str(w) : w \in StringsUpTo(MaxLen) \ {<<>>}}

EmptyObject == [f \in CredFields |-> Absent]

\* order in which the properties of a credentials object were created
FieldOrder == <<"publicKey", "privateKey", "serverPublicKey", "qrCode",
                "pairingCode", "session">>

\* the characters JSON.stringify writes between the quotes of a string
RECURSIVE Escape(_)
Escape(w) ==
    IF w = <<>> THEN <<>>
    ELSE (IF Head(w) \in {"\"", "\\"} THEN <<"\\", Head(w)>>
          ELSE IF Head(w) = "\n" THEN <<"\\", "n">>
          ELSE <<Head(w)>>) \o Escape(Tail(w))

\* the string JSON.parse reads from the characters between two quotes
RECURSIVE Unescape(_)
Unescape(x) ==
    IF x = <<>> THEN <<>>
    ELSE IF Head(x) = "\\"
    THEN <<IF x[2] = "n" THEN "\n" ELSE x[2]>> \o Unescape(Tail(Tail(x)))
    ELSE <<Head(x)>> \o Unescape(Tail(x))

\* JSON.stringify(credentials): the members of the JSON text, in order; a
\* property that is absent or undefined is not written
RECURSIVE Members(_, _)
Members(obj, k) ==
    IF k > Len(FieldOrder) THEN <<>>
    ELSE (IF obj[FieldOrder[k]].kind = "string"
          THEN <<[key |-> FieldOrder[k],
                  text |-> Escape(obj[FieldOrder[k]].chars)]>>
          ELSE <<>>) \o Members(obj, k + 1)

formatCredentialsForStorage(obj) == Members(obj, 1)

\* a parser that keeps the escape sequences of the text as they are written
parseCredentialsKeepsEscapes(text) ==
    [f \in CredFields |->
        IF \E k \in DOMAIN text : text[k].key = f
        THEN LET k == CHOOSE k \in DOMAIN text : text[k].key = f
             IN Str(text[k].text)
        ELSE Absent]

\* JSON.parse(text): the object with one property for each member
parseCredentialsFromStorage(text) ==
    [f \in CredFields |->
        IF \E k \in DOMAIN text : text[k].key = f
        THEN LET k == CHOOSE k \in DOMAIN text : text[k].key = f
             IN Str(Unescape(text[k].text))
        ELSE Absent]

\* credentials.field as the connection reads it: undefined when absent
Field(obj, f) ==
    IF obj[f].kind = "string" THEN ToString(obj[f].chars) ELSE "undef"

\* the object as the connection's code sees it
AsCredentials(obj) == [f \in CredFields |-> Field(obj, f)]

NoStorage == [stage |-> "none", original |-> EmptyObject, text |-> <<>>,
              restored |-> EmptyObject]

\* no authenticate call was made; pc: where the call is suspended, req: the
\* request it awaits, fut: the promise it awaits, result: how it ended
NoAuthCall == [pc |-> "idle", kind |-> "-", req |-> 0, fut |-> 0,
               result |-> "none"]

\* --------------------------------------------------------------- WASocket
SockIds == 1..MaxSockets

\* WASocket.maxReconnectAttempts
maxReconnectAttempts == 5

\* a WASocket after its constructor: ws (0: null), reconnectAttempts, the
\* WebSocket objects it created with their readyState ("free": none), the
\* once('close') listeners close() added, the pending reopen timers, and
\* what its latest step was: the kind of step, the close code handled (0:
\* none) and the willReconnect of the close event emitted
NewSocket == [ws |-> 0, reconnectAttempts |-> 0,
              sockets |-> [k \in SockIds |-> "free"],
              closeOnce |-> [k \in SockIds |-> FALSE],
              wasOpen |-> [k \in SockIds |-> FALSE],
              timers |-> 0, step |-> "none", code |-> 0,
              willReconnect |-> FALSE]

\* ------------------------------------------------- the state as a record
S == [ws |-> ws, authState |-> authState, credentials |-> credentials,
      authPromise |-> authPromise, authResolve |-> authResolve,
      authReject |-> authReject, futures |-> futures, awaited |-> awaited,
      keepAliveInterval |-> keepAliveInterval,
      msgRetryCache |-> msgRetryCache, reqs |-> reqs, opening |-> opening,
      hung |-> hung, out |-> {}, srvAuth |-> srvAuth,
      refused |-> refused, cState |-> cState, cCreds |-> cCreds,
      events |-> events, loops |-> loops, quiet |-> quiet,
      options |-> options, storage |-> storage, sock |-> sock,
      authCall |-> authCall,
      attached |-> attached, thrown |-> "none", ovf |-> FALSE]

\* ovf marks a step that needs more requests, futures or loops than the
\* bounds provide; such a step is not taken.
Commit(s) ==
    /\ ~s.ovf
    /\ Len(s.events) <= MaxEvents
    /\ ws' = s.ws
    /\ authState' = s.authState
    /\ credentials' = s.credentials
    /\ authPromise' = s.authPromise
    /\ authResolve' = s.authResolve
    /\ authReject' = s.authReject
    /\ futures' = s.futures
    /\ awaited' = s.awaited
    /\ keepAliveInterval' = s.keepAliveInterval
    /\ msgRetryCache' = s.msgRetryCache
    /\ reqs' = s.reqs
    /\ opening' = s.opening
    /\ hung' = s.hung
    /\ out' = s.out
    /\ srvAuth' = s.srvAuth
    /\ refused' = s.refused
    /\ cState' = s.cState
    /\ cCreds' = s.cCreds
    /\ events' = s.events
    /\ loops' = s.loops
    /\ quiet' = s.quiet
    /\ options' = s.options
    /\ attached' = s.attached
    /\ storage' = s.storage
    /\ sock' = s.sock
    /\ authCall' = s.authCall
    /\ thrown' = s.thrown

Init ==
    /\ ws = "null"
    /\ authState = "disconnected"
    /\ credentials = None
    /\ authPromise = 0
    /\ authResolve = 0
    /\ authReject = 0
    /\ futures = [p \in FutureIds |-> "unused"]
    /\ awaited = {}
    /\ keepAliveInterval = FALSE
    /\ msgRetryCache = [t \in Tags |-> 0]
    /\ reqs = [i \in ReqIds |-> FreeReq]
    /\ opening = None
    /\ hung = FALSE
    /\ out = {}
    /\ srvAuth = "none"
    /\ refused = 0
    /\ cState = "disconnected"
    /\ cCreds = None
    /\ events = <<>>
    /\ loops = [l \in LoopIds |-> IdleLoop]
    /\ quiet = TRUE
    /\ options = [restartOnConnectionLost |-> TRUE,
                  maxReconnectAttempts |-> MaxReconnectAttempts]
    /\ attached = FALSE
    /\ storage = NoStorage
    /\ sock = NewSocket
    /\ authCall = NoAuthCall
    /\ thrown = "none"

Min(X) == CHOOSE x \in X : \A y \in X : x <= y

Ev(name) == [name |-> name, arg |-> 0]
EvN(name, n) == [name |-> name, arg |-> n]

\* a call of the caller throws or its promise rejects
Throw(s, err) == [s EXCEPT !.thrown = err]

\* ------------------------------------------------------- FocksupClient
\* EventEmitter.emit of the client: the observer appends to the log
ClientEmit(s, e) == [s EXCEPT !.events = Append(@, e)]

\* head of the while loop of handleReconnection, and its exit
ReconnectLoopHead(s, l) ==
    IF s.loops[l].attempts < s.options.maxReconnectAttempts
    THEN LET n == s.loops[l].attempts + 1
         IN ClientEmit([s EXCEPT !.loops[l] = [pc |-> "delay", attempts |-> n]],
                       EvN("reconnecting", n))
    ELSE ClientEmit([s EXCEPT !.loops[l] = IdleLoop], Ev("reconnect_failed"))

handleReconnection(s) ==
    IF s.cCreds = None THEN s
    ELSE LET idle == {l \in LoopIds : s.loops[l].pc = "idle"}
         IN IF idle = {} THEN [s EXCEPT !.ovf = TRUE]
            ELSE LET l == Min(idle)
                 IN ReconnectLoopHead(
                        [s EXCEPT !.loops[l] = [pc |-> "run", attempts |-> 0]], l)

\* connection.on('open') of setupEventListeners
ClientOnOpen(s) ==
    IF ~s.attached THEN s
    ELSE ClientEmit([s EXCEPT !.cState = "connected"], Ev("ready"))

\* the close handler without the test of restartOnConnectionLost
ClientOnCloseAlways(s) ==
    IF ~s.attached THEN s
    ELSE handleReconnection(
             ClientEmit([s EXCEPT !.cState = "disconnected"],
                        Ev("disconnected")))

\* connection.on('close') of setupEventListeners
ClientOnClose(s) ==
    IF ~s.attached THEN s
    ELSE LET s1 == ClientEmit([s EXCEPT !.cState = "disconnected"],
                              Ev("disconnected"))
         IN IF s1.options.restartOnConnectionLost
            THEN handleReconnection(s1) ELSE s1

\* connection.on('message' | 'message_create' | ...) of setupEventListeners
ClientOnPush(s, type) ==
    IF ~s.attached THEN s ELSE ClientEmit(s, Ev(type))

\* --------------------------------------------------------- WAConnection
\* disconnect() that does not detach the socket
disconnectLeavesSocket(s) ==
    [s EXCEPT !.keepAliveInterval = FALSE,
              !.ws = IF @ = "null" THEN @ ELSE "CLOSED",
              !.authState = "disconnected",
              !.msgRetryCache = [t \in Tags |-> 0],
              !.reqs = [i \in ReqIds |->
                           [@[i] EXCEPT !.stale = (s.reqs[i].status = "pending")]]]

disconnect(s) ==
    [s EXCEPT !.keepAliveInterval = FALSE,
              !.hung = @ \/ (s.ws # "null" /\ s.opening # None),
              !.opening = IF s.ws # "null" THEN None ELSE @,
              !.ws = "null",
              !.authState = "disconnected",
              !.msgRetryCache = [t \in Tags |-> 0],
              !.reqs = [i \in ReqIds |->
                           [@[i] EXCEPT !.stale = (s.reqs[i].status = "pending")]]]

\* crypto.publicEncrypt needs a key
CanEncrypt(c) == c.serverPublicKey # "undef"

\* send that tests only that a socket is attached, not its readyState
sendUncheckedState(s, m, enc) ==
    IF s.ws = "null"
    THEN [ok |-> FALSE, err |-> "not_open", st |-> s]
    ELSE IF s.credentials # None /\ ~(CanEncrypt(s.credentials[1]) /\ enc)
    THEN [ok |-> FALSE, err |-> "encrypt", st |-> s]
    ELSE [ok |-> TRUE, err |-> "none",
          st |-> [s EXCEPT !.out = @ \cup {m.type},
                           !.srvAuth = IF m.type = "auth" THEN "received" ELSE @]]

\* send(message); enc: crypto.publicEncrypt accepts the payload
send(s, m, enc) ==
    IF s.ws # "OPEN"
    THEN [ok |-> FALSE, err |-> "not_open", st |-> s]
    ELSE IF s.credentials # None /\ ~(CanEncrypt(s.credentials[1]) /\ enc)
    THEN [ok |-> FALSE, err |-> "encrypt", st |-> s]
    ELSE [ok |-> TRUE, err |-> "none",
          st |-> [s EXCEPT !.out = @ \cup {m.type},
                           !.srvAuth = IF m.type = "auth" THEN "received" ELSE @]]

Msg(type, tag) == [type |-> type, tag |-> tag]

setupAuthenticationPromise(s) ==
    LET unused == {p \in FutureIds : s.futures[p] = "unused"}
    IN IF unused = {} THEN [s EXCEPT !.ovf = TRUE]
       ELSE LET p == Min(unused)
            IN [s EXCEPT !.futures[p] = "pending", !.authPromise = p,
                         !.authResolve = p, !.authReject = p]

\* sendRequest that sets no timer
sendRequestNoTimer(s, i, tag, kind, keys, enc) ==
    LET s1 == [s EXCEPT !.reqs[i] = [status |-> "pending", tag |-> tag,
                                     timer |-> FALSE, kind |-> kind,
                                     keys |-> keys, stale |-> FALSE],
                        !.msgRetryCache[tag] = i]
        r == send(s1, Msg("request", tag), enc)
    IN IF r.ok THEN r.st
       ELSE Throw([s1 EXCEPT !.msgRetryCache[tag] = 0,
                             !.reqs[i] = Settled("rejected")], r.err)

\* sendRequest(request, timeout) as request i
sendRequest(s, i, tag, kind, keys, enc) ==
    LET s1 == [s EXCEPT !.reqs[i] = [status |-> "pending", tag |-> tag,
                                     timer |-> TRUE, kind |-> kind,
                                     keys |-> keys, stale |-> FALSE],
                        !.msgRetryCache[tag] = i]
        r == send(s1, Msg("request", tag), enc)
    IN IF r.ok THEN r.st
       ELSE Throw([s1 EXCEPT !.msgRetryCache[tag] = 0,
                             !.reqs[i] = Settled("rejected")], r.err)

\* the rest of requestQRCode / requestPairingCode once sendRequest resolved
requestCodeContinue(s, i, m) ==
    LET c == [NoFields EXCEPT
                 !["publicKey"] = s.reqs[i].keys.public,
                 !["privateKey"] = s.reqs[i].keys.private,
                 !["serverPublicKey"] = m.serverPublicKey,
                 !["qrCode"] = IF s.reqs[i].kind = "qr" THEN m.code ELSE "undef",
                 !["pairingCode"] = IF s.reqs[i].kind = "pairing" THEN m.code ELSE "undef"]
    IN setupAuthenticationPromise(
           [s EXCEPT !.credentials = Some(c), !.authState = "authenticating"])

\* the resolve callback sendRequest stored in msgRetryCache
registryResolve(s, i, m) ==
    LET s1 == [s EXCEPT !.msgRetryCache[s.reqs[i].tag] = 0]
        s2 == IF s.reqs[i].kind \in {"qr", "pairing"}
              THEN requestCodeContinue(s1, i, m) ELSE s1
    IN [s2 EXCEPT !.reqs[i] = Settled("resolved")]

\* the reject callback sendRequest stored in msgRetryCache
registryReject(s, i, err) ==
    Throw([s EXCEPT !.msgRetryCache[s.reqs[i].tag] = 0,
                    !.reqs[i] = Settled("rejected")], err)

\* the setTimeout callback of sendRequest
requestTimeout(s, i) ==
    Throw([s EXCEPT !.msgRetryCache[s.reqs[i].tag] = 0,
                    !.reqs[i] = Settled("rejected")], "timeout")

\* {...this.credentials, ...message.credentials}
MergeCredentials(c, d) ==
    [f \in CredFields |-> IF d[f] # "undef" THEN d[f] ELSE c[f]]

SettleFuture(s, p, how) ==
    [s EXCEPT !.futures[p] = IF @ = "pending" THEN how ELSE @]

\* handleAuthSuccess that drops the fields the server supplied
handleAuthSuccessNoMerge(s, m) ==
    IF s.credentials = None THEN s
    ELSE LET s1 == [s EXCEPT !.authState = "connected"]
             s2 == IF s1.authResolve # 0
                   THEN [SettleFuture(s1, s1.authResolve, "resolved")
                             EXCEPT !.authResolve = 0, !.authReject = 0]
                   ELSE s1
         IN ClientOnOpen(s2)

handleAuthSuccess(s, m) ==
    IF s.credentials = None THEN s
    ELSE LET s1 == [s EXCEPT !.credentials =
                                 Some(MergeCredentials(s.credentials[1], m.credentials)),
                             !.authState = "connected"]
             s2 == IF s1.authResolve # 0
                   THEN [SettleFuture(s1, s1.authResolve, "resolved")
                             EXCEPT !.authResolve = 0, !.authReject = 0]
                   ELSE s1
         IN ClientOnOpen(s2)

handleConnectionClose(s) ==
    LET s1 == IF s.authState = "authenticating" /\ s.authReject # 0
              THEN [SettleFuture(s, s.authReject, "rejected")
                        EXCEPT !.authResolve = 0, !.authReject = 0]
              ELSE s
    IN ClientOnClose([s1 EXCEPT !.authState = "disconnected"])

PushTypes == {"message", "presence_update", "group_update", "message_revoke",
              "message_create"}

\* a dispatcher that looks at the type before it looks at the tag
handleIncomingMessageTypeFirst(s, m) ==
    IF m.type = "auth_success" THEN handleAuthSuccess(s, m)
    ELSE IF m.tag # "none" /\ s.msgRetryCache[m.tag] # 0
    THEN IF m.error THEN registryReject(s, s.msgRetryCache[m.tag], "server")
         ELSE registryResolve(s, s.msgRetryCache[m.tag], m)
    ELSE IF m.type \in PushTypes THEN ClientOnPush(s, m.type)
    ELSE s

handleIncomingMessage(s, m) ==
    IF m.tag # "none" /\ s.msgRetryCache[m.tag] # 0
    THEN IF m.error THEN registryReject(s, s.msgRetryCache[m.tag], "server")
         ELSE registryResolve(s, s.msgRetryCache[m.tag], m)
    ELSE IF m.type = "auth_success" THEN handleAuthSuccess(s, m)
    ELSE IF m.type \in PushTypes THEN ClientOnPush(s, m.type)
    ELSE s

\* a message listener with no try/catch around decrypt and JSON.parse: what
\* it dispatches for a payload it cannot read is arbitrary
onMessageUnguarded(s, m, dec) == handleIncomingMessage(s, m)

\* ws.on('message'); dec: crypto.privateDecrypt and JSON.parse accept the data
onMessage(s, m, dec) ==
    IF ~dec THEN s ELSE handleIncomingMessage(s, m)


\* ------------------------------------------- connect, connectWithCredentials
\* a rejection of connect() travelling up through its callers' catch blocks
connectFailed(s, call, err) ==
    IF call.via.who = "direct"
    THEN Throw(s, err)
    ELSE LET s1 == ClientEmit([s EXCEPT !.cState = "disconnected"],
                              Ev("connection_failed"))
         IN IF call.via.who = "loop"
            THEN ReconnectLoopHead(s1, call.via.l)
            ELSE Throw(s1, err)

\* connect() or connectWithCredentials() returned to its caller
connectResolved(s, call) ==
    IF call.via.who = "direct" THEN s
    ELSE IF call.via.who = "loop"
    THEN ClientEmit([s EXCEPT !.loops[call.via.l] = IdleLoop], Ev("reconnected"))
    ELSE IF call.fn = "connect"
    THEN ClientEmit([s EXCEPT !.cState = "authenticating"],
                    Ev("auth_method_required"))
    ELSE s

\* connect() that opens a new socket whether or not one is attached
connectReplacesSocket(s, call) ==
    [s EXCEPT !.authState = "connecting", !.ws = "CONNECTING",
              !.opening = Some(call), !.srvAuth = "none"]

\* connect() up to its first suspension in waitForOpen
connect(s, call) ==
    IF s.ws # "null" THEN connectFailed(s, call, "exists")
    ELSE [s EXCEPT !.authState = "connecting", !.ws = "CONNECTING",
                   !.opening = Some(call), !.srvAuth = "none"]

\* connectWithCredentials after connect() resolved
authenticateAndOpen(s, call, encAuth) ==
    LET s1 == [s EXCEPT !.credentials = call.creds]
        r == send(s1, Msg("auth", "none"), encAuth)
    IN IF ~r.ok THEN connectFailed(r.st, call, r.err)
       ELSE connectResolved(
                ClientOnOpen([r.st EXCEPT !.authState = "connected"]), call)

\* connect() from the 'open' event on
connectContinue(s, call, encInit, encAuth) ==
    LET r == send(s, Msg("init", "none"), encInit)
    IN IF ~r.ok THEN connectFailed(disconnect(r.st), call, r.err)
       ELSE LET s1 == [r.st EXCEPT !.keepAliveInterval = TRUE]
            IN IF call.fn = "connect" THEN connectResolved(s1, call)
               ELSE authenticateAndOpen(s1, call, encAuth)

\* FocksupClient.connect(credentials?)
clientConnect(s, creds, via) ==
    LET s1 == ClientEmit([s EXCEPT !.cState = "connecting"], Ev("connecting"))
        s2 == IF creds # None THEN [s1 EXCEPT !.cCreds = creds] ELSE s1
    IN connect(s2, [fn |-> IF creds # None THEN "connectWithCredentials"
                           ELSE "connect",
                    creds |-> creds, via |-> via])

\* ----------------------------------------------------------------- inputs
Envelope(tag, type, error, c, spk, code) ==
    [tag |-> tag, type |-> type, error |-> error, credentials |-> c,
     serverPublicKey |-> spk, code |-> code]

Responses == {Envelope(t, "response", e, NoFields, "spk", "code") :
                 t \in Tags, e \in BOOLEAN}
Pushes == {Envelope("none", ty, FALSE, c, "undef", "undef") :
              ty \in {"auth_success", "message", "unknown"},
              c \in {NoFields, [NoFields EXCEPT !["session"] = "abc"]}}
Inbound == Responses \cup Pushes

\* the caller starts a new observation window
Called(s) ==
    [s EXCEPT !.events = <<>>, !.refused = 0,
              !.quiet = \A l \in LoopIds : s.loops[l].pc = "idle"]

NewReq(s) == {i \in ReqIds : s.reqs[i].status = "free"}

\* ------------------------------------------- actions: calls on WAConnection
CallConnect ==
    /\ ~attached
    /\ Commit(connect(Called(S),
                   [fn |-> "connect", creds |-> None, via |-> Direct]))

CallConnectWithCredentials ==
    /\ ~attached
    /\ Commit(connect(Called(S),
                   [fn |-> "connectWithCredentials",
                    creds |-> Some(StoredCredentials), via |-> Direct]))

CallDisconnect ==
    /\ ~attached
    /\ Commit(disconnect(Called(S)))

\* requestCode with no test of authState
requestCodeAnyState(s, kind, keys, enc) ==
    LET tag == IF kind = "qr" THEN "request_qr" ELSE "request_pairing_code"
    IN IF NewReq(s) = {} THEN [s EXCEPT !.ovf = TRUE]
       ELSE sendRequest(s, Min(NewReq(s)), tag, kind, keys, enc)

\* requestQRCode() and requestPairingCode()
requestCode(s, kind, keys, enc) ==
    LET tag == IF kind = "qr" THEN "request_qr" ELSE "request_pairing_code"
    IN IF s.authState # "connecting"
       THEN Throw(s, IF kind = "qr" THEN "state_qr" ELSE "state_pairing")
       ELSE IF NewReq(s) = {} THEN [s EXCEPT !.ovf = TRUE]
       ELSE sendRequest(s, Min(NewReq(s)), tag, kind, keys, enc)

CallRequestQRCode ==
    /\ ~attached
    /\ \E keys \in KeyPairs, enc \in BOOLEAN :
        Commit(requestCode(Called(S), "qr", keys, enc))

CallRequestPairingCode ==
    /\ ~attached
    /\ \E keys \in KeyPairs, enc \in BOOLEAN :
        Commit(requestCode(Called(S), "pairing", keys, enc))

waitForAuthentication(s) ==
    IF s.authState # "authenticating" THEN Throw(s, "state_auth")
    ELSE LET s1 == IF s.authPromise = 0 THEN setupAuthenticationPromise(s)
                   ELSE s
         IN [s1 EXCEPT !.awaited = @ \cup {s1.authPromise}]

\* the catch block of authenticateWithQR / authenticateWithPairingCode
authenticateFailed(s) ==
    ClientEmit([s EXCEPT !.authCall.pc = "idle",
                         !.authCall.result = "rejected"], Ev("auth_failure"))

\* authenticateWithQR / authenticateWithPairingCode from the call of
\* waitForAuthentication() on
authenticateWait(s) ==
    LET r == waitForAuthentication([s EXCEPT !.thrown = "none"])
    IN IF r.thrown # "none" THEN authenticateFailed(r)
       ELSE [r EXCEPT !.authCall.pc = "wait", !.authCall.fut = r.authPromise,
                      !.thrown = s.thrown]

\* after requestQRCode / requestPairingCode returned: generatePairingCode
\* has no asynchronous step, generateQRCode encodes an image and resumes in
\* a later task
authenticateGotCode(s) ==
    IF s.authCall.kind = "qr" THEN [s EXCEPT !.authCall.pc = "generate"]
    ELSE authenticateWait(ClientEmit(s, Ev("pairing_code")))

\* after waitForAuthentication resolved
authenticateDone(s) ==
    ClientEmit(ClientEmit([s EXCEPT !.cCreds = s.credentials,
                                    !.cState = "connected",
                                    !.authCall.pc = "idle",
                                    !.authCall.result = "resolved"],
                          Ev("authenticated")), Ev("ready"))

\* the continuation of the authenticate call that the step made runnable;
\* it runs after the handler that settled the promise has returned
authenticateContinue(s) ==
    LET a == s.authCall
    IN IF a.pc = "request" /\ s.reqs[a.req].status = "resolved"
       THEN authenticateGotCode(s)
       ELSE IF a.pc = "request" /\ s.reqs[a.req].status = "rejected"
       THEN authenticateFailed(s)
       ELSE IF a.pc = "wait" /\ s.futures[a.fut] = "resolved"
       THEN authenticateDone(s)
       ELSE IF a.pc = "wait" /\ s.futures[a.fut] = "rejected"
       THEN authenticateFailed(s)
       ELSE s

\* authenticateWithQR() / authenticateWithPairingCode() up to the first
\* suspension
authenticate(s, kind, keys, enc) ==
    LET r == requestCode(s, kind, keys, enc)
    IN IF r.ovf THEN r
       ELSE IF r.thrown # "none" THEN authenticateFailed(r)
       ELSE [r EXCEPT !.authCall = [pc |-> "request", kind |-> kind,
                                    req |-> Min(NewReq(s)), fut |-> 0,
                                    result |-> "none"]]

CallWaitForAuthentication ==
    /\ ~attached
    /\ Commit(waitForAuthentication(Called(S)))

\* generateMessageTag(): Math.floor(Math.random() * 1000000).toString()
generateMessageTag == AutoTags

\* sendRequest(request) with no tag in the request
CallSendRequest ==
    /\ ~attached
    /\ NewReq(S) # {}
    /\ \E tag \in generateMessageTag, enc \in BOOLEAN :
        Commit(sendRequest(Called(S), Min(NewReq(S)), tag, "user", NoKeys,
                              enc))

\* ------------------------------------------------ actions: socket and timers
OnOpen ==
    /\ ws = "CONNECTING"
    /\ \E encInit \in BOOLEAN, encAuth \in BOOLEAN :
          Commit(connectContinue([S EXCEPT !.ws = "OPEN", !.opening = None],
                                 opening[1], encInit, encAuth))

\* the socket fails to open: ws emits 'error', then 'close'
OnError ==
    /\ ws = "CONNECTING"
    /\ LET s1 == [S EXCEPT !.ws = "CLOSED", !.opening = None,
                           !.refused = @ + 1]
           s2 == handleConnectionClose(s1)
       IN Commit(connectFailed(disconnect(s2), opening[1], "transport"))

\* the open socket is closed by the peer or the network
OnClose ==
    /\ ws = "OPEN"
    /\ Commit(authenticateContinue(
                  handleConnectionClose([S EXCEPT !.ws = "CLOSED"])))

OnMessage ==
    /\ ws = "OPEN"
    /\ \E m \in Inbound, dec \in BOOLEAN :
          Commit(authenticateContinue(onMessage(S, m, dec)))

RequestTimeout ==
    /\ \E i \in ReqIds : reqs[i].timer
    /\ \E i \in ReqIds :
          reqs[i].timer /\ Commit(authenticateContinue(requestTimeout(S, i)))

\* the setInterval callback of startKeepAlive
keepAlive(s, enc) ==
    IF s.ws = "OPEN" THEN send(s, Msg("ping", "none"), enc).st ELSE s

KeepAliveTick ==
    /\ keepAliveInterval
    /\ \E enc \in BOOLEAN : Commit(keepAlive(S, enc))

\* the server accepts or rejects the auth message it received
ServerDecide ==
    /\ ws = "OPEN" /\ srvAuth = "received"
    /\ \E v \in {"accepted", "rejected"} : Commit([S EXCEPT !.srvAuth = v])

Next ==
    \/ CallConnect
    \/ CallConnectWithCredentials
    \/ CallDisconnect
    \/ CallRequestQRCode
    \/ CallRequestPairingCode
    \/ CallWaitForAuthentication
    \/ CallSendRequest
    \/ OnOpen
    \/ OnError
    \/ OnClose
    \/ OnMessage
    \/ RequestTimeout
    \/ KeepAliveTick
    \/ ServerDecide

Spec == Init /\ [][Next]_vars

\* the timer sendRequest set for request i expires
timerExpires(i) ==
    /\ reqs[i].timer
    /\ IF authCall.pc = "idle" THEN Commit(requestTimeout(S, i))
       ELSE Commit(authenticateContinue(requestTimeout(S, i)))

\* a timer that stays armed expires; the socket events and the caller's
\* calls are not forced
SpecFair ==
    Init /\ [][Next]_vars /\ \A i \in ReqIds : WF_vars(timerExpires(i))

\* a socket that is opening ends up open or failed
SpecFairSocket == Init /\ [][Next]_vars /\ WF_vars(OnOpen \/ OnError)

\* ------------------------------------------ actions: calls on FocksupClient
InitClient ==
    /\ ws = "null"
    /\ authState = "disconnected"
    /\ credentials = None
    /\ authPromise = 0
    /\ authResolve = 0
    /\ authReject = 0
    /\ futures = [p \in FutureIds |-> "unused"]
    /\ awaited = {}
    /\ keepAliveInterval = FALSE
    /\ msgRetryCache = [t \in Tags |-> 0]
    /\ reqs = [i \in ReqIds |-> FreeReq]
    /\ opening = None
    /\ hung = FALSE
    /\ out = {}
    /\ srvAuth = "none"
    /\ refused = 0
    /\ cState = "disconnected"
    /\ cCreds = None
    /\ events = <<>>
    /\ loops = [l \in LoopIds |-> IdleLoop]
    /\ quiet = TRUE
    /\ \E r \in BOOLEAN :
          options = [restartOnConnectionLost |-> r,
                     maxReconnectAttempts |-> MaxReconnectAttempts]
    /\ attached = TRUE
    /\ storage = NoStorage
    /\ sock = NewSocket
    /\ authCall = NoAuthCall
    /\ thrown = "none"

\* FocksupClient.disconnect()
clientDisconnect(s) ==
    ClientEmit([disconnect(s) EXCEPT !.cState = "disconnected"],
               Ev("disconnected"))

ClientCallConnect ==
    /\ attached
    /\ \E creds \in {None, Some(StoredCredentials)} :
          Commit(clientConnect(Called(S), creds, User))

ClientCallDisconnect ==
    /\ attached
    /\ Commit(clientDisconnect(Called(S)))

\* delay(reconnectInterval) of handleReconnection elapsed: this.connect(this.credentials)
ReconnectDelayElapsed ==
    /\ attached
    /\ \E l \in LoopIds :
        /\ loops[l].pc = "delay"
        /\ Commit(clientConnect([S EXCEPT !.loops[l].pc = "connecting"],
                                cCreds, Loop(l)))

NextClient ==
    \/ ClientCallConnect
    \/ ClientCallDisconnect
    \/ ReconnectDelayElapsed
    \/ OnOpen
    \/ OnError
    \/ OnClose
    \/ KeepAliveTick
    \/ ServerDecide

SpecClient == InitClient /\ [][NextClient]_vars

\* ------------------------------ FocksupClient: QR and pairing-code login
ClientAuthenticateWithQR ==
    /\ attached /\ authCall.pc = "idle"
    /\ authCall.kind # "qr"
    /\ \E keys \in KeyPairs, enc \in BOOLEAN :
          Commit(authenticate(Called(S), "qr", keys, enc))

ClientAuthenticateWithPairingCode ==
    /\ attached /\ authCall.pc = "idle"
    /\ authCall.kind # "pairing"
    /\ \E keys \in KeyPairs, enc \in BOOLEAN :
          Commit(authenticate(Called(S), "pairing", keys, enc))

\* generateQRCode(qrData) returned: emit('qr'), then waitForAuthentication()
QRGenerated ==
    /\ authCall.pc = "generate"
    /\ Commit(authenticateWait(ClientEmit(S, Ev("qr"))))

\* the envelopes of a login: responses and auth_success pushes
OnLoginMessage ==
    /\ ws = "OPEN" /\ attached
    /\ Len(events) <= MaxLoginEvents
    /\ \E m \in Responses \cup {p \in Pushes : p.type = "auth_success"},
          dec \in BOOLEAN :
          Commit(authenticateContinue(onMessage(S, m, dec)))

NextAuth ==
    \/ ClientCallConnect
    \/ ClientCallDisconnect
    \/ ClientAuthenticateWithQR
    \/ ClientAuthenticateWithPairingCode
    \/ QRGenerated
    \/ OnLoginMessage
    \/ RequestTimeout
    \/ OnOpen
    \/ OnError
    \/ OnClose

\* a login followed from the caller's side; the delays of handleReconnection
\* are not followed here (SpecClient does)
SpecAuth == InitClient /\ [][NextAuth]_vars

\* ------------------------------- credentials stored, restored and resumed
\* the credentials objects a caller stores: a key pair (or none, when the
\* object is incomplete), and whatever the server supplied as its key, the QR
\* code and the session
StorableCredentials ==
    {[EmptyObject EXCEPT !["publicKey"] = kp,
                         !["privateKey"] = kp,
                         !["serverPublicKey"] = spk,
                         !["qrCode"] = qr,
                         !["session"] = ses] :
        kp \in {Absent, Str(<<"a">>)},
        spk \in JsValues \ {Absent},
        qr \in {Absent, Undefined, Str(<<"a">>)},
        ses \in JsValues}

InitStorage ==
    /\ ws = "null"
    /\ authState = "disconnected"
    /\ credentials = None
    /\ authPromise = 0
    /\ authResolve = 0
    /\ authReject = 0
    /\ futures = [p \in FutureIds |-> "unused"]
    /\ awaited = {}
    /\ keepAliveInterval = FALSE
    /\ msgRetryCache = [t \in Tags |-> 0]
    /\ reqs = [i \in ReqIds |-> FreeReq]
    /\ opening = None
    /\ hung = FALSE
    /\ out = {}
    /\ srvAuth = "none"
    /\ refused = 0
    /\ cState = "disconnected"
    /\ cCreds = None
    /\ events = <<>>
    /\ loops = [l \in LoopIds |-> IdleLoop]
    /\ quiet = TRUE
    /\ options = [restartOnConnectionLost |-> TRUE,
                  maxReconnectAttempts |-> MaxReconnectAttempts]
    /\ attached = FALSE
    /\ \E obj \in StorableCredentials :
          storage = [NoStorage EXCEPT !.stage = "object", !.original = obj]
    /\ sock = NewSocket
    /\ authCall = NoAuthCall
    /\ thrown = "none"

FormatCredentials ==
    /\ storage.stage = "object"
    /\ Commit([S EXCEPT !.storage.stage = "stored",
                        !.storage.text =
                            formatCredentialsForStorage(storage.original)])

ParseCredentials ==
    /\ storage.stage = "stored"
    /\ Commit([S EXCEPT !.storage.stage = "restored",
                        !.storage.restored =
                            parseCredentialsFromStorage(storage.text)])

\* connectWithCredentials(parseCredentialsFromStorage(stored))
ResumeRestored ==
    /\ storage.stage = "restored"
    /\ Commit(connect(Called(S),
                      [fn |-> "connectWithCredentials",
                       creds |-> Some(AsCredentials(storage.restored)),
                       via |-> Direct]))

NextStorage ==
    \/ FormatCredentials
    \/ ParseCredentials
    \/ ResumeRestored
    \/ CallDisconnect
    \/ OnOpen
    \/ OnError
    \/ OnClose
    \/ ServerDecide

SpecStorage == InitStorage /\ [][NextStorage]_vars

\* ------------------------------------------------- WASocket on its own
\* codes of a close event: normal closure, going away, no status received
\* (the answer to a close frame sent without a code), abnormal closure
CloseCodes == {1000, 1001, 1005, 1006}

\* the start of a step of the WASocket
Step(w, name) ==
    [w EXCEPT !.step = name, !.code = 0, !.willReconnect = FALSE]

\* a closed WebSocket object that is no longer this.ws emits nothing more
Collect(w) ==
    LET gone(k) == w.sockets[k] = "CLOSED" /\ k # w.ws
    IN [w EXCEPT !.sockets = [k \in SockIds |->
                                 IF gone(k) THEN "free" ELSE w.sockets[k]],
                 !.closeOnce = [k \in SockIds |-> ~gone(k) /\ w.closeOnce[k]],
                 !.wasOpen = [k \in SockIds |-> ~gone(k) /\ w.wasOpen[k]]]

\* open(): this.ws = new WebSocket(url), as object k
open(w, k) ==
    [w EXCEPT !.ws = k, !.sockets[k] = "CONNECTING"]

\* close()
close(w) ==
    IF w.ws = 0 THEN w
    ELSE IF w.sockets[w.ws] = "CLOSED" THEN [w EXCEPT !.ws = 0]
    ELSE [w EXCEPT !.closeOnce[w.ws] = TRUE, !.sockets[w.ws] = "CLOSING"]

\* a close handler that counts and schedules a reopen whatever the count is
handleCloseUnbounded(w, code) ==
    LET shouldReconnect == code # 1000 /\ code # 1001
    IN [w EXCEPT !.reconnectAttempts = IF shouldReconnect THEN @ + 1 ELSE @,
                 !.timers = IF shouldReconnect THEN @ + 1 ELSE @,
                 !.code = code, !.willReconnect = shouldReconnect]

\* handleClose(code, reason)
handleClose(w, code) ==
    LET shouldReconnect == /\ code # 1000
                           /\ code # 1001
                           /\ w.reconnectAttempts < maxReconnectAttempts
    IN [w EXCEPT !.reconnectAttempts = IF shouldReconnect THEN @ + 1 ELSE @,
                 !.timers = IF shouldReconnect THEN @ + 1 ELSE @,
                 !.code = code, !.willReconnect = shouldReconnect]

\* ws.on('open') of object k
wsOnOpen(w, k) ==
    [w EXCEPT !.sockets[k] = "OPEN", !.wasOpen[k] = TRUE,
              !.reconnectAttempts = 0]

\* the close event of object k: ws.on('close'), then the listener close()
\* added with once, if any
wsOnClose(w, k, code) ==
    LET w1 == handleClose([w EXCEPT !.sockets[k] = "CLOSED"], code)
    IN IF w.closeOnce[k]
       THEN [w1 EXCEPT !.ws = 0, !.closeOnce[k] = FALSE]
       ELSE w1

\* the owner calls open()
SocketOpen ==
    /\ \E k \in SockIds : sock.sockets[k] = "free"
    /\ LET k == Min({j \in SockIds : sock.sockets[j] = "free"})
       IN Commit([S EXCEPT !.sock = Collect(open(Step(sock, "open"), k))])

\* the owner calls close()
SocketClose ==
    /\ sock.ws \in {0} \cup SockIds
    /\ Commit([S EXCEPT !.sock = Collect(close(Step(sock, "close")))])

WsOpened ==
    /\ \E k \in SockIds : sock.sockets[k] = "CONNECTING"
    /\ \E k \in SockIds :
          /\ sock.sockets[k] = "CONNECTING"
          /\ Commit([S EXCEPT !.sock = wsOnOpen(Step(sock, "opened"), k)])

\* a socket that was never open closes with 1006
WsClosed ==
    /\ sock.timers <= MaxTimers
    /\ \E k \in SockIds, code \in CloseCodes :
          /\ sock.sockets[k] \in {"CONNECTING", "OPEN", "CLOSING"}
          /\ sock.wasOpen[k] \/ code = 1006
          /\ LET w == Collect(wsOnClose(Step(sock, "closed"), k, code))
             IN w.timers <= MaxTimers /\ Commit([S EXCEPT !.sock = w])

\* the setTimeout callback of handleClose: this.open()
ReopenTimer ==
    /\ sock.timers > 0
    /\ \E k \in SockIds : sock.sockets[k] = "free"
    /\ LET k == Min({j \in SockIds : sock.sockets[j] = "free"})
           w == [Step(sock, "reopen") EXCEPT !.timers = @ - 1]
       IN Commit([S EXCEPT !.sock = Collect(open(w, k))])

NextSocket ==
    \/ SocketOpen
    \/ SocketClose
    \/ WsOpened
    \/ WsClosed
    \/ ReopenTimer

SpecSocket == Init /\ [][NextSocket]_vars

\* ================================================================ claims
Pending(i) == reqs[i].status = "pending"
Count(name) == Cardinality({k \in DOMAIN events : events[k].name = name})
Supervisor == SelectSeq(events, LAMBDA e : e.name \in
                  {"disconnected", "reconnecting", "reconnected", "reconnect_failed"})

\* C1: disconnect() rejects every pending request with ConnectionClosed and
\* leaves the request registry empty.
C1_RegistryDrain ==
    [][CallDisconnect =>
          /\ \A i \in ReqIds : Pending(i) => reqs'[i].status = "rejected"
          /\ (\E i \in ReqIds : Pending(i)) => thrown' = "closed"
          /\ \A t \in Tags : msgRetryCache'[t] = 0]_vars

\* C2: Connected, restartOnConnectionLost, credentials stored, the socket
\* closes unexpectedly and the server refuses at most the first resume: once
\* the supervisor is done the client has emitted disconnected,
\* reconnecting(1), reconnecting(2), reconnected and is connected.
C2_ScenarioC ==
    ( /\ Len(events) >= 3
      /\ events[1].name = "connecting" /\ events[2].name = "ready"
      /\ events[3].name = "disconnected"
      /\ options.restartOnConnectionLost /\ cCreds # None
      /\ refused <= 1 /\ srvAuth # "rejected"
      /\ \A l \in LoopIds : loops[l].pc = "idle" )
    => /\ Supervisor = <<Ev("disconnected"), EvN("reconnecting", 1),
                         EvN("reconnecting", 2), Ev("reconnected")>>
       /\ cState = "connected"

\* C3: while no connection attempt succeeds, the closes that follow a call of
\* the caller make the supervisor emit at most maxReconnectAttempts
\* reconnecting events and at most one reconnect_failed.
C3_ReconnectBound ==
    (Count("reconnected") = 0 /\ Count("ready") = 0)
    => /\ Count("reconnecting") <= options.maxReconnectAttempts
       /\ Count("reconnect_failed") <= 1

\* C4: disconnect() in state authenticating rejects the pending
\* authentication future.
C4_DisconnectRejectsAuth ==
    [][(CallDisconnect /\ authState = "authenticating" /\ authPromise # 0
          /\ futures[authPromise] = "pending")
       => futures'[authPromise] = "rejected"]_vars

\* C5: the tags generateMessageTag assigned to the outstanding requests are
\* pairwise distinct.
C5_TagsDistinct ==
    \A i, j \in ReqIds :
        (i # j /\ Pending(i) /\ Pending(j)
            /\ reqs[i].kind = "user" /\ reqs[j].kind = "user")
        => reqs[i].tag # reqs[j].tag

\* C6: the expiry of one request's timer rejects that request with a timeout,
\* removes no other request's registry entry, leaves every other request as
\* it was and does not change the connection state.
C6_TimeoutIsolation ==
    [][\A i \in ReqIds :
          (reqs[i].timer /\ Commit(requestTimeout(S, i)))
          => /\ thrown' = "timeout"
             /\ authState' = authState /\ ws' = ws
             /\ \A j \in ReqIds \ {i} : reqs'[j] = reqs[j]
             /\ \A t \in Tags : msgRetryCache[t] \notin {0, i}
                                   => msgRetryCache'[t] = msgRetryCache[t]]_vars

\* C7: sendRequest in state disconnected is rejected in the same step, hands
\* nothing to the socket and leaves no registry entry for the request.
C7_SendRequestDisconnected ==
    [][(CallSendRequest /\ authState = "disconnected")
       => /\ reqs'[Min(NewReq(S))].status = "rejected"
          /\ thrown' = "not_open"
          /\ out' = {}
          /\ \A t \in Tags : msgRetryCache'[t] # Min(NewReq(S))]_vars

C7_Witness ==
    /\ authState = "disconnected" /\ thrown = "not_open" /\ ws = "CLOSED"
    /\ \E i \in ReqIds : reqs[i].status = "rejected"

AuthSuccessAbc ==
    Envelope("none", "auth_success", FALSE,
             [NoFields EXCEPT !["session"] = "abc"], "undef", "undef")

\* C8: in state authenticating after requestQRCode returned a challenge, the
\* push {type: auth_success, credentials: {session: "abc"}} resolves the
\* authentication future, makes the state connected and merges session "abc"
\* into the credentials stored at request time.
C8_ScenarioA ==
    [][(/\ ws = "OPEN" /\ authState = "authenticating"
        /\ credentials # None /\ credentials[1].qrCode # "undef"
        /\ Commit(onMessage(S, AuthSuccessAbc, TRUE)))
       => /\ authState' = "connected"
          /\ authPromise # 0 /\ futures'[authPromise] = "resolved"
          /\ credentials' # None
          /\ credentials'[1] = [credentials[1] EXCEPT !["session"] = "abc"]]_vars

C8_Witness ==
    /\ authState = "connected" /\ credentials # None
    /\ credentials[1].session = "abc" /\ credentials[1].qrCode = "code"
    /\ credentials[1].publicKey = "pub1"
    /\ authPromise # 0 /\ futures[authPromise] = "resolved"

\* C9: after connectWithCredentials sent the auth message the state is
\* connected only once the server has accepted it.
C9_ConnectedAfterConfirmation ==
    (authState = "connected" /\ srvAuth # "none") => srvAuth = "accepted"

\* C10: when connectWithCredentials fails because the socket does not open or
\* the init or auth message cannot be sent, the state is disconnected, no
\* socket is attached and the keepalive timer is not running.
C10_FailedResumeCleansUp ==
    [][(/\ ws = "CONNECTING" /\ opening # None
        /\ opening[1].fn = "connectWithCredentials"
        /\ (OnOpen \/ OnError) /\ thrown' # "none")
       => /\ authState' = "disconnected"
          /\ ws' = "null"
          /\ ~keepAliveInterval']_vars

\* C11: requestQRCode and requestPairingCode called in a state other than
\* connecting fail with nothing handed to the socket, no request registered,
\* the stored credentials kept and the state unchanged.
C11_RequestCodeIllegalState ==
    [][((CallRequestQRCode \/ CallRequestPairingCode)
          /\ authState # "connecting")
       => /\ thrown' \in {"state_qr", "state_pairing"}
          /\ out' = {}
          /\ reqs' = reqs /\ msgRetryCache' = msgRetryCache
          /\ credentials' = credentials
          /\ authPromise' = authPromise /\ futures' = futures
          /\ authState' = authState /\ ws' = ws]_vars

C11_Witness ==
    /\ thrown = "state_pairing" /\ authState = "authenticating"
    /\ ws = "OPEN" /\ credentials # None
    /\ credentials[1].qrCode = "code"

\* C12: while a requestQRCode is outstanding a requestPairingCode is refused
\* and sends nothing, and the other way round; and while the state stays
\* authenticating neither the stored credentials nor the armed
\* authentication promise is replaced.
C12_OneStrategy ==
    [][/\ (CallRequestPairingCode /\ ws = "OPEN"
              /\ \E i \in ReqIds : Pending(i) /\ reqs[i].kind = "qr")
          => (thrown' = "state_pairing" /\ out' = {})
       /\ (CallRequestQRCode /\ ws = "OPEN"
              /\ \E i \in ReqIds : Pending(i) /\ reqs[i].kind = "pairing")
          => (thrown' = "state_qr" /\ out' = {})
       /\ (authState = "authenticating" /\ authState' = "authenticating")
          => (credentials' = credentials /\ authPromise' = authPromise)]_vars

\* C13: when the socket closes in state authenticating, every pending promise
\* that waitForAuthentication returned is rejected and the state becomes
\* disconnected; waitForAuthentication called in another state fails at once
\* and returns no promise.
C13_CloseWhileAuthenticating ==
    [][/\ ((OnClose \/ OnError) /\ authState = "authenticating")
          => /\ authState' = "disconnected"
             /\ \A p \in awaited :
                    futures[p] = "pending" => futures'[p] = "rejected"
       /\ (CallWaitForAuthentication /\ authState # "authenticating")
          => (thrown' = "state_auth" /\ awaited' = awaited
                /\ futures' = futures)]_vars

\* C14: connect() called while a socket is attached fails in the same step
\* and leaves the state, the credentials, the request registry, the pending
\* requests, the keepalive timer and the attached socket as they were.
C14_ConnectWhileAttached ==
    [][(CallConnect /\ ws # "null")
       => /\ thrown' = "exists"
          /\ out' = {}
          /\ UNCHANGED <<ws, authState, credentials, msgRetryCache, reqs,
                         opening, keepAliveInterval, srvAuth, authPromise,
                         futures>>]_vars

C14_Witness ==
    /\ thrown = "exists" /\ ws = "OPEN" /\ authState = "connected"
    /\ keepAliveInterval /\ \E i \in ReqIds : Pending(i)

\* C15: disconnect() does not fail and leaves the state disconnected, no
\* socket attached, the keepalive timer stopped and the registry empty; a
\* second disconnect() right after it changes nothing and does not fail.
C15_DisconnectIdempotent ==
    [][CallDisconnect
       => /\ thrown' = "none"
          /\ ws' = "null" /\ authState' = "disconnected"
          /\ ~keepAliveInterval'
          /\ \A t \in Tags : msgRetryCache'[t] = 0
          /\ disconnect(Called(S))' = S']_vars

C15_Witness ==
    /\ ws = "null" /\ authState = "disconnected" /\ thrown = "none"
    /\ ~keepAliveInterval /\ hung
    /\ \E i \in ReqIds : Pending(i)

RecEvents(ev) ==
    Len(SelectSeq(ev, LAMBDA e : e.name \in
            {"reconnecting", "reconnected", "reconnect_failed"}))
LoopsIdle == \A l \in LoopIds : loops[l].pc = "idle"
UnexpectedClose ==
    (OnClose \/ OnError) /\ options.restartOnConnectionLost /\ cCreds # None

\* C16: a reconnection loop starts only in a step in which the socket closes
\* or fails to open, with restartOnConnectionLost set and credentials stored
\* in the client; while no loop runs, any other step (disconnect() included)
\* emits no reconnecting, reconnected or reconnect_failed event and opens no
\* socket unless it is the caller's connect.
C16_ReconnectionStart ==
    [][/\ (\E l \in LoopIds : loops[l].pc = "idle" /\ loops'[l].pc # "idle")
          => UnexpectedClose
       /\ (LoopsIdle /\ ~UnexpectedClose)
          => /\ RecEvents(events') <= RecEvents(events)
             /\ \A l \in LoopIds : loops'[l].pc = "idle"
             /\ (ws' = "CONNECTING" /\ ws # "CONNECTING")
                   => ClientCallConnect]_vars

C16_Witness ==
    /\ events = <<Ev("connecting"), Ev("ready"), Ev("disconnected"),
                  EvN("reconnecting", 1)>>
    /\ cState = "disconnected" /\ ws = "CLOSED"
    /\ \E l \in LoopIds : loops[l].pc = "delay"

\* C17: after a call the caller made while no reconnection was running, once
\* reconnect_failed has been emitted and until the caller's next call, the
\* client emits no reconnecting event and opens no socket.
C17_ReconnectFailedIsTerminal ==
    [][(quiet /\ Count("reconnect_failed") > 0
          /\ ~ClientCallConnect /\ ~ClientCallDisconnect)
       => /\ Len(SelectSeq(events', LAMBDA e : e.name = "reconnecting"))
                <= Count("reconnecting")
          /\ (ws' = "CONNECTING" => ws = "CONNECTING")]_vars

\* C18: right after a call of the caller failed, the client reports connected
\* exactly when the connection is in state connected.
C18_StateAfterFailure ==
    (attached /\ thrown # "none")
    => (cState = "connected" <=> authState = "connected")

\* C19: every request sendRequest made is eventually resolved or rejected,
\* and once it is settled its outcome never changes.
C19_RequestsSettle ==
    /\ \A i \in ReqIds : Pending(i) ~> ~Pending(i)
    /\ [][\A i \in ReqIds :
             reqs[i].status \in {"resolved", "rejected"}
             => reqs'[i] = reqs[i]]_vars

C19_Witness ==
    /\ thrown = "timeout" /\ ws = "null" /\ authState = "disconnected"
    /\ \A i \in ReqIds : reqs[i].status = "rejected"

\* C20: every connect() or connectWithCredentials() call waiting for its
\* socket to open is eventually resolved or rejected, also when disconnect()
\* is called meanwhile.
C20_ConnectSettles ==
    (opening # None) ~> (opening = None /\ ~hung)

C22_DisconnectedIsClean ==
    [][(authState # "disconnected" /\ authState' = "disconnected")
       => /\ \A t \in Tags : msgRetryCache'[t] = 0
          /\ ~keepAliveInterval']_vars

\* C23: whenever the state is connected, credentials are stored that hold a
\* key pair and the server's key.
C23_ConnectedHasCredentials ==
    authState = "connected"
    => /\ credentials # None
       /\ \A f \in {"publicKey", "privateKey", "serverPublicKey"} :
              credentials[1][f] # "undef"

\* C24: a step that begins and ends with the connection in state connected
\* emits no reconnecting event, so no attempt is counted while connected.
C24_NoAttemptWhileConnected ==
    [][(authState = "connected" /\ authState' = "connected")
       => Len(SelectSeq(events', LAMBDA e : e.name = "reconnecting"))
             <= Count("reconnecting")]_vars

\* C25: at most one handleReconnection is running at any time, and none
\* starts in a step in which a connect() call is still waiting for its socket.
C25_SingleLoop ==
    [][/\ Cardinality({l \in LoopIds : loops'[l].pc # "idle"}) <= 1
       /\ (\E l \in LoopIds : loops[l].pc = "idle" /\ loops'[l].pc # "idle")
          => opening = None]_vars

\* C26: a ping is handed to the socket only in state connected, and the step
\* that starts the keepalive timer is one that ends in state connected.
C26_PingOnlyConnected ==
    [][/\ "ping" \in out' => authState = "connected"
       /\ (~keepAliveInterval /\ keepAliveInterval')
          => authState' = "connected"]_vars

\* envelopes that carry a tag, of any type
TaggedEnvelopes ==
    {Envelope(tg, ty, e, c, "spk", "code") :
        tg \in Tags, ty \in {"response", "auth_success", "message", "unknown"},
        e \in BOOLEAN, c \in {NoFields, [NoFields EXCEPT !["session"] = "abc"]}}

\* the state with a listener on the connection's events
Listened == [S EXCEPT !.attached = TRUE]

\* C27: an inbound envelope whose tag is registered settles the request
\* registered under that tag, resolved without an error field and rejected
\* with the server's error otherwise, removes that entry and clears that
\* request's timer; no other request or entry changes, no event is emitted,
\* and the envelope is not treated as a push: the state does not become
\* connected and no authentication promise is settled, whatever its type.
C27_ResponseDispatch ==
    \A m \in TaggedEnvelopes :
        LET i == msgRetryCache[m.tag]
            r == onMessage(Listened, m, TRUE)
        IN (ws = "OPEN" /\ i # 0 /\ ~r.ovf)
           => /\ r.reqs[i] = Settled(IF m.error THEN "rejected" ELSE "resolved")
              /\ m.error => r.thrown = "server"
              /\ r.msgRetryCache[m.tag] = 0
              /\ \A j \in ReqIds \ {i} : r.reqs[j] = reqs[j]
              /\ \A tg \in Tags \ {m.tag} :
                     r.msgRetryCache[tg] = msgRetryCache[tg]
              /\ r.events = events /\ r.cState = cState
              /\ authState # "connected" => r.authState # "connected"
              /\ \A p \in FutureIds :
                     futures[p] = "pending" => r.futures[p] = "pending"
              /\ (reqs[i].kind = "user" \/ m.error)
                     => /\ r.authState = authState
                        /\ r.credentials = credentials
                        /\ r.authPromise = authPromise

C27_Witness ==
    /\ ws = "OPEN" /\ authState = "connected" /\ thrown = "server"
    /\ \E i \in ReqIds : reqs[i].status = "rejected"
    /\ \E j \in ReqIds : Pending(j) /\ msgRetryCache[reqs[j].tag] = j

\* C28: a payload that cannot be decrypted or parsed, and an envelope of
\* unknown type whose tag is absent or not registered, leave the state, the
\* credentials, the registry, the requests and the promises as they were and
\* emit no event; the socket stays attached, so later envelopes are processed.
C28_DropUnknown ==
    ws = "OPEN"
    => /\ \A m \in Inbound \cup TaggedEnvelopes :
              onMessage(Listened, m, FALSE) = Listened
       /\ \A m \in Pushes \cup TaggedEnvelopes :
              (m.type = "unknown" /\ (m.tag = "none" \/ msgRetryCache[m.tag] = 0))
              => onMessage(Listened, m, TRUE) = Listened

C28_Witness ==
    /\ ws = "OPEN" /\ authState = "authenticating" /\ out = {}
    /\ thrown = "none"
    /\ authPromise # 0 /\ futures[authPromise] = "pending"
    /\ \E i \in ReqIds : Pending(i) /\ msgRetryCache[reqs[i].tag] = i
    /\ \E t \in Tags : msgRetryCache[t] = 0

\* C29: with several requests pending, a response settles every pending
\* request that carries its tag and leaves the requests with another tag
\* alone, and two responses with different tags give every request the same
\* outcome in either arrival order.
C29_TagMatching ==
    (ws = "OPEN" /\ Cardinality({i \in ReqIds : Pending(i)}) >= 2)
    => /\ \A m \in Responses :
              LET r == onMessage(Listened, m, TRUE)
              IN \A i \in ReqIds :
                    Pending(i)
                    => IF reqs[i].tag = m.tag
                       THEN r.reqs[i].status # "pending"
                       ELSE r.reqs[i] = reqs[i]
       /\ \A m1, m2 \in Responses :
              m1.tag # m2.tag
              => onMessage(onMessage(Listened, m1, TRUE), m2, TRUE).reqs
                 = onMessage(onMessage(Listened, m2, TRUE), m1, TRUE).reqs

\* C30: a step that starts and ends in state connected leaves the stored
\* credentials as they were; in particular an auth_success push received
\* while connected does not merge again.
C30_CredentialsFrozen ==
    [][(authState = "connected" /\ authState' = "connected")
       => credentials' = credentials]_vars

\* C31: the WASocket creates a WebSocket object only when its owner calls
\* open(); no close event, the one that follows its own close() included,
\* makes it open a socket by itself.
C31_NoRetryInTransport ==
    [][sock'.ws # sock.ws /\ sock'.ws # 0 => sock'.step = "open"]_vars

\* C38: WASocket.reconnectAttempts stays within 0..maxReconnectAttempts; it
\* grows by one exactly in a close with a code other than 1000 and 1001
\* handled below the maximum, which schedules one reopen; it goes back to 0
\* only when a socket opens; a close handled at the maximum schedules nothing.
C38_AttemptsBounded ==
    [][LET n == sock.reconnectAttempts
           closed == sock'.step = "closed"
           abnormal == sock'.code \notin {1000, 1001}
       IN /\ sock'.reconnectAttempts \in 0..maxReconnectAttempts
          /\ (closed /\ abnormal /\ n < maxReconnectAttempts)
                => /\ sock'.reconnectAttempts = n + 1
                   /\ sock'.timers = sock.timers + 1
                   /\ sock'.willReconnect
          /\ sock'.reconnectAttempts > n
                => closed /\ abnormal /\ sock'.reconnectAttempts = n + 1
          /\ sock'.reconnectAttempts < n
                => sock'.step = "opened" /\ sock'.reconnectAttempts = 0
          /\ (closed /\ n = maxReconnectAttempts)
                => sock'.timers = sock.timers /\ ~sock'.willReconnect
          /\ sock'.timers > sock.timers => closed]_vars

C38_Witness ==
    /\ sock.reconnectAttempts = maxReconnectAttempts
    /\ sock.step = "closed" /\ sock.code = 1006
    /\ sock.timers = 0 /\ ~sock.willReconnect

\* C32: in state disconnected no socket is attached and a connect() is not
\* refused with 'Connection already exists', after an unexpected close of
\* the socket too.
C32_DisconnectedAcceptsConnect ==
    authState = "disconnected"
    => /\ ws = "null"
       /\ connect(Called(S), [fn |-> "connect", creds |-> None,
                              via |-> Direct]).thrown # "exists"

\* C33: when a request that was pending at disconnect() still has its timer
\* and a request issued afterwards is registered under the same tag, the
\* expiry of the old timer leaves the new request registered and its
\* response still resolves it.
C33_OldTimerHarmless ==
    \A i, j \in ReqIds :
        (/\ Pending(i) /\ reqs[i].stale /\ reqs[i].timer
         /\ Pending(j) /\ ~reqs[j].stale /\ reqs[j].tag = reqs[i].tag
         /\ msgRetryCache[reqs[j].tag] = j /\ ws = "OPEN")
        => LET r == requestTimeout(S, i)
               m == Envelope(reqs[j].tag, "response", FALSE, NoFields,
                             "spk", "code")
           IN /\ r.msgRetryCache[reqs[j].tag] = j
              /\ onMessage(r, m, TRUE).reqs[j].status = "resolved"

\* C36: as long as the caller's latest call is disconnect() (the log of the
\* events since that call starts with its disconnected event), the client
\* starts no connection attempt, emits no reconnected event and is not
\* connected.
C36_DisconnectStopsReconnection ==
    (events # <<>> /\ events[1].name = "disconnected")
    => /\ Count("connecting") = 0
       /\ Count("reconnected") = 0
       /\ cState # "connected"
       /\ authState # "connected"

AuthSuccessPushes == {m \in Pushes : m.type = "auth_success"}

\* C37: an auth_success push makes the state connected only when it is
\* received in state authenticating; received in state connecting it changes
\* neither the state nor the events emitted, and received with no stored
\* credentials it changes nothing at all.
C37_AuthSuccessOnlyWhenAuthenticating ==
    ws = "OPEN"
    => \A m \in AuthSuccessPushes :
          LET r == onMessage(Listened, m, TRUE)
          IN /\ (r.authState = "connected" /\ authState # "connected")
                    => authState = "authenticating"
             /\ authState = "connecting"
                    => r.authState = "connecting" /\ r.events = events
             /\ credentials = None => r = Listened

\* C34: when the auth_success push of a QR login was received while the
\* call was between requestQRCode and waitForAuthentication (the state is
\* connected with the credentials of the QR request), the call goes on to
\* succeed: it resolves, emits authenticated and emits no auth_failure.
C34_EarlyAuthSuccess ==
    [][(/\ authCall.pc = "generate" /\ authCall'.pc # "generate"
        /\ authState = "connected"
        /\ credentials # None /\ credentials[1]["qrCode"] # "undef")
       => /\ authCall'.result = "resolved"
          /\ \E k \in DOMAIN events' : events'[k].name = "authenticated"
          /\ \A k \in DOMAIN events' : events'[k].name # "auth_failure"]_vars

\* C35: the step in which a QR or pairing-code login succeeds leaves exactly
\* one ready event in the log of the events since the call, with an
\* authenticated event before it.
C35_ReadyOnce ==
    [][(authCall.pc = "wait" /\ authCall'.result = "resolved")
       => /\ Len(SelectSeq(events', LAMBDA e : e.name = "ready")) = 1
          /\ \A k \in DOMAIN events' :
                events'[k].name = "ready"
                => \E j \in 1..(k - 1) : events'[j].name = "authenticated"]_vars

====
